---- MODULE Spec2Model ----
(***************************************************************************)
(* Model of the prediction pipeline of ChempropBeautifulGUI                *)
(* (src/app_beautiful_fixed_v2.py): the model handle, single and batch     *)
(* prediction, result extraction and the prediction history.               *)
(*                                                                         *)
(* Every handler is a slot of the one GUI thread.  A handler runs without  *)
(* interruption except where it calls QApplication.processEvents(), which  *)
(* dispatches pending button clicks: load_model (line 606) and the batch   *)
(* loop of run_prediction after each successful item (line 840).  A        *)
(* handler suspended there is a frame of `stack`; the handlers dispatched  *)
(* inside it run on top of it and return before it continues.              *)
(*                                                                         *)
(* Scores are hundredths (50 stands for 0.5).  chemprop, RDKit, lightning, *)
(* pandas and the file system are outside the repository: what their calls *)
(* return or raise is chosen with \E in the actions.                       *)
(***************************************************************************)
EXTENDS Integers, Sequences, FiniteSets, TLC

\* ---- bounds of the model ----
MaxBatch == 2
MaxAppends == 2
MaxDepth == 1
MaxHistory == 21

\* ---- values ----
\* pandas reads an empty cell of the smiles column as the float NaN
NaN == "<nan>"
ValidSmiles == {"CCO"}
MalformedSmiles == {"not-a-molecule"}
\* texts the user can have typed in smiles_input (after strip())
SmilesTexts == {""} \cup ValidSmiles \cup MalformedSmiles
\* values of one cell of the smiles column
SmilesCells == ValidSmiles \cup MalformedSmiles \cup {NaN}
\* texts of model_path_edit (after strip())
ModelPaths == {"", "m.ckpt", "w.pt"}
Scores == {50, 80}

\* 'ERROR', the value of pred['prediction'] of a failed item
ERROR == -1
\* the value _extract_prediction_value returns when extraction raised
DefaultValue == 50
\* is_antibiotic = pred_value > 0.5
Threshold == 50
\* self.prediction_history[-20:]
ViewLimit == 20

NoModel == [kind |-> "None", path |-> "None"]
Unbound == "<unbound>"

\* ---- sequences ----
RECURSIVE SeqsUpTo(_, _)
SeqsUpTo(S, n) ==
  IF n = 0 THEN {<< >>}
  ELSE LET shorter == SeqsUpTo(S, n - 1)
       IN shorter \cup {Append(s, x) : s \in {t \in shorter : Len(t) = n - 1}, x \in S}

\* ---- state ----
VARIABLES
  model,               \* self.model: NoModel or the loaded handle
  model_path,          \* self.model_path
  predict_single_btn,  \* predict_single_btn.isEnabled()
  batch_predict_btn,   \* batch_predict_btn.isEnabled()
  prediction_history,  \* self.prediction_history
  history_trace,       \* history variable: how each entry's score came about
  history_display,     \* the rows of the table self.history_display shows
  progress_bar,        \* self.progress_bar.value()
  clock,               \* pd.Timestamp.now(): the number of timestamps taken so far
  stack,               \* handlers suspended in processEvents(), innermost last
  last,                \* the handler step taken last, what it reported, the pipeline steps it ran
  alive                \* FALSE once an unhandled exception has ended the process

vars == <<model, model_path, predict_single_btn, batch_predict_btn, prediction_history,
          history_trace, history_display, progress_bar, clock, stack, last, alive>>

NoCounts == [total |-> 0, antibiotics |-> 0, errors |-> 0]
NoFile == [written |-> FALSE, header |-> << >>, rows |-> << >>]
\* the state of the program itself (last is an observation of it)
progvars == <<model, model_path, predict_single_btn, batch_predict_btn, prediction_history,
              history_trace, history_display, progress_bar, clock, stack, alive>>

\* what a handler step did: the dialog or log line it ends with, the text it read from its
\* input field (arg), the pipeline steps it ran, the rows it put into result_table
\* (displayed: whether it touched the table at all), the counts of a finished batch, the
\* file an export wrote, the handle a load replaced
Report(op, outcome, steps) ==
  [op |-> op, outcome |-> outcome, arg |-> "", steps |-> steps, displayed |-> FALSE,
   results |-> << >>, counts |-> NoCounts, file |-> NoFile, replaced |-> NoModel]

\* a frame of a suspended (or running) run_prediction or load_model
BatchFrame(list) ==
  [kind |-> "batch", pc |-> "loop", smiles_list |-> list, i |-> 0, predictions |-> << >>,
   trace |-> << >>, test_loader |-> Unbound, model_path |-> ""]
LoadFrame(path) ==
  [kind |-> "load", pc |-> "events", smiles_list |-> << >>, i |-> 0, predictions |-> << >>,
   trace |-> << >>, test_loader |-> Unbound, model_path |-> path]

Top == stack[Len(stack)]
Pop == SubSeq(stack, 1, Len(stack) - 1)
ReplaceTop(f) == [stack EXCEPT ![Len(stack)] = f]

\* A click is dispatched by the event loop: the outer one, or processEvents() of the
\* innermost suspended handler.
CanDispatch == alive /\ (IF stack = << >> THEN TRUE ELSE Top.pc = "events")
\* the innermost handler is running its own code
Running(kind, pc) == alive /\ stack # << >> /\ Top.kind = kind /\ Top.pc = pc

RECURSIVE PendingItems(_)
\* items of the batches in flight (each may still add a history entry)
PendingItems(st) ==
  IF st = << >> THEN 0 ELSE Len(st[Len(st)].smiles_list) + PendingItems(SubSeq(st, 1, Len(st) - 1))

\* add_to_history calls the bound MaxAppends still allows
Room == MaxAppends - clock - PendingItems(stack)

Init ==
  /\ model = NoModel                      \* line 59
  /\ model_path = "None"                  \* line 60
  /\ prediction_history = << >>           \* line 61
  /\ history_trace = << >>
  /\ history_display = << >>              \* line 442: a new QTextBrowser
  /\ predict_single_btn = TRUE            \* line 237: a new QPushButton is enabled
  /\ batch_predict_btn = TRUE             \* line 279
  /\ progress_bar = 0                     \* line 286: a new QProgressBar
  /\ clock = 0
  /\ stack = << >>
  /\ last = Report("init", "none", {})
  /\ alive = TRUE

\* ---- model lifecycle ----
\* model_path.endswith('.ckpt') (line 608)
CkptPaths == {"m.ckpt"}

\* what load_from_checkpoint / torch.load return for a path (lines 608-611)
Handle(path) ==
  [kind |-> IF path \in CkptPaths THEN "MPNN" ELSE "torch", path |-> path]

\* mutant: a load keeps the handle that is already there
loaded_model_keep(path) == IF model # NoModel THEN model ELSE Handle(path)
\* self.model = ... (lines 609, 611)
loaded_model(path) == Handle(path)

\* mutant: the check for a loaded model is missing
not_model_never(m) == FALSE
\* `not self.model` (lines 680, 766)
not_model(m) == m = NoModel

\* load_model up to QApplication.processEvents() (lines 596-606)
load_model(path) ==
  /\ CanDispatch
  /\ IF path = ""
     THEN /\ last' = Report("load_model", "warn_no_path", {})
          /\ stack' = stack
     ELSE /\ Len(stack) < MaxDepth
          /\ last' = [Report("load_model", "loading", {}) EXCEPT !.arg = path]
          /\ stack' = Append(stack, LoadFrame(path))
  /\ UNCHANGED <<model, model_path, predict_single_btn, batch_predict_btn, prediction_history,
                 history_trace, history_display, progress_bar, clock, alive>>

\* mutant: a load that fails drops the handle that was active
load_failed_model_dropped(m) == NoModel
\* self.model when load_from_checkpoint / torch.load raised: the assignment of line 609
\* or 611 did not take place
load_failed_model(m) == m

\* load_model after processEvents() returned (lines 608-629)
load_model_resume ==
  /\ Running("load", "events")
  /\ \E loads \in BOOLEAN :
       IF loads
       THEN /\ model' = loaded_model(Top.model_path)
            /\ model_path' = Top.model_path
            /\ predict_single_btn' = TRUE
            /\ batch_predict_btn' = TRUE
            /\ last' = [Report("load_model", "load_ok", {})
                          EXCEPT !.arg = Top.model_path, !.replaced = model]
       ELSE /\ model' = load_failed_model(model)
            /\ last' = [Report("load_model", "load_failed", {}) EXCEPT !.arg = Top.model_path]
            /\ UNCHANGED <<model_path, predict_single_btn, batch_predict_btn>>
  /\ stack' = Pop
  /\ UNCHANGED <<prediction_history, history_trace, history_display, progress_bar,
                 clock, alive>>

\* self.model = None; self.model_path = None (lines 633-634)
unloaded_model == NoModel
\* mutant: unload forgets to reset the recorded path
unloaded_path_kept == model_path
unloaded_path == "None"

\* unload_model (lines 631-640)
unload_model ==
  /\ CanDispatch
  /\ model' = unloaded_model
  /\ model_path' = unloaded_path
  /\ predict_single_btn' = FALSE
  /\ batch_predict_btn' = FALSE
  /\ last' = [Report("unload_model", "unloaded", {}) EXCEPT !.replaced = model]
  /\ UNCHANGED <<prediction_history, history_trace, history_display, progress_bar,
                 clock, stack, alive>>

\* ---- history ----
\* mutant: the new entry is put in front
add_to_history_front(history, timestamp, smiles, prediction, confidence) ==
  <<[timestamp |-> timestamp, smiles |-> smiles, prediction |-> prediction,
     confidence |-> confidence]>> \o history
\* add_to_history (lines 936-944)
add_to_history(history, timestamp, smiles, prediction, confidence) ==
  Append(history, [timestamp |-> timestamp, smiles |-> smiles, prediction |-> prediction,
                   confidence |-> confidence])

\* mutant: the view takes the oldest entries
view_oldest(history) ==
  SubSeq(history, 1, IF Len(history) > ViewLimit THEN ViewLimit ELSE Len(history))
\* self.prediction_history[-20:] (line 968)
view(history) ==
  SubSeq(history, IF Len(history) > ViewLimit THEN Len(history) - ViewLimit + 1 ELSE 1,
         Len(history))

\* one <tr> of the history table (lines 970-975): the timestamp, the first 50 characters
\* of the smiles (every text of SmilesTexts is shorter) followed by '...', the prediction
\* and the confidence
history_row(record) ==
  <<record.timestamp, <<record.smiles, "...">>, record.prediction, record.confidence>>
\* update_history_display (lines 949-979): what history_display shows afterwards
update_history_display(history) ==
  [k \in 1..Len(view(history)) |-> history_row(view(history)[k])]

\* mutant: clear removes the newest entry only
cleared_pop(history) == SubSeq(history, 1, Len(history) - 1)
\* self.prediction_history.clear() (line 983)
cleared(history) == << >>

\* clear_history (lines 981-985)
clear_history ==
  /\ CanDispatch
  /\ prediction_history' = cleared(prediction_history)
  /\ history_trace' = << >>
  /\ history_display' = update_history_display(prediction_history')
  /\ last' = Report("clear_history", "cleared", {})
  /\ UNCHANGED <<model, model_path, predict_single_btn, batch_predict_btn, progress_bar,
                 clock, stack, alive>>

\* pd.DataFrame(self.prediction_history).to_csv(file_path, index=False) (lines 1001-1002):
\* the columns are the keys of the entries in their order, one row per entry
csv_header == <<"timestamp", "smiles", "prediction", "confidence">>
csv_row(entry) == <<entry.timestamp, entry.smiles, entry.prediction, entry.confidence>>
\* mutant: the first entry is taken for the header line and lost
to_csv_skip_first(history) ==
  [written |-> TRUE, header |-> csv_header,
   rows |-> [k \in 1..(Len(history) - 1) |-> csv_row(history[k + 1])]]
to_csv(history) ==
  [written |-> TRUE, header |-> csv_header,
   rows |-> [k \in 1..Len(history) |-> csv_row(history[k])]]

\* export_history (lines 987-1004); to_csv is called outside any try
export_history ==
  /\ CanDispatch
  /\ IF prediction_history = << >>
     THEN /\ last' = Report("export_history", "warn_no_history", {})
          /\ alive' = alive
     ELSE \E file_path \in {"", "out.csv"} :
            IF file_path = ""
            THEN /\ last' = Report("export_history", "cancelled", {})
                 /\ alive' = alive
            ELSE \E written \in BOOLEAN :
                   IF written
                   THEN /\ last' = [Report("export_history", "export_ok", {})
                                      EXCEPT !.file = to_csv(prediction_history)]
                        /\ alive' = alive
                   ELSE /\ last' = Report("export_history", "unhandled_exception", {})
                        /\ alive' \in BOOLEAN
  /\ UNCHANGED <<model, model_path, predict_single_btn, batch_predict_btn, prediction_history,
                 history_trace, history_display, progress_bar, clock, stack>>

\* ---- the pipeline: featurization, inference, extraction ----
\* data.MoleculeDatapoint.from_smi(smi) and the dataset and loader built from it
\* (lines 692-694, 798-800) succeed for a string RDKit parses and raise otherwise
featurizes(smiles) == smiles \in ValidSmiles
\* the exception they raise for any other cell: a TypeError or another Exception
FeaturizeErrors == {"TypeError", "Exception"}

\* values of a raw output: a number, or something float() rejects
Num(v) == [numeric |-> TRUE, v |-> v]
NonNumeric == [numeric |-> FALSE, v |-> 0]
\* pred = np.concatenate(test_preds, axis=0) is an ndarray; flat is pred.flat
ndarray(flat) == [type |-> "ndarray", flat |-> flat]
RawOutputs ==
  {ndarray(<< >>), ndarray(<<NonNumeric>>)}
    \cup {ndarray(<<Num(v)>>) : v \in Scores}
    \cup {ndarray(<<Num(v), Num(w)>>) : v \in {50}, w \in {80}}
\* trainer.predict and np.concatenate (lines 717-718, 821-822) raise or give a raw output
InferOutcomes ==
  {[raised |-> TRUE, pred |-> ndarray(<< >>)]}
    \cup {[raised |-> FALSE, pred |-> p] : p \in RawOutputs}

\* _extract_prediction_value, ndarray branch (lines 748-750): float(pred.flat[0]) raises
\* IndexError on an empty array and TypeError/ValueError on a value that is no number
extract_raises(pred) == pred.flat = << >> \/ ~pred.flat[1].numeric
\* _extract_prediction_value (lines 736-756): the except clause returns 0.5
extract_prediction_value(pred) ==
  IF extract_raises(pred) THEN DefaultValue ELSE pred.flat[1].v
\* history variable: which path of the extraction produced the value
extract_path(pred) == IF extract_raises(pred) THEN "default" ELSE "value"

Trace(feat, infer, extract) == [feat |-> feat, infer |-> infer, extract |-> extract]

\* mutant: a score of exactly 0.5 is classified positive
is_antibiotic_from(pred_value) == pred_value >= Threshold
\* is_antibiotic = pred_value > 0.5 (lines 827, 890)
is_antibiotic(pred_value) == pred_value > Threshold
herb_type(pred_value) == IF is_antibiotic(pred_value) THEN "antibiotic" ELSE "non_antibiotic"

\* confidence of a scored result (lines 724, 833) and of a failed one (line 846)
Confidence == 95
NoConfidence == 0

\* a row of result_table (lines 880-905, 911-934)
Row(smiles, prediction, confidence, nature) ==
  [smiles |-> smiles, prediction |-> prediction, confidence |-> confidence, nature |-> nature]

\* display_single_result (lines 880-905)
display_single_result(smiles, prediction, confidence) ==
  <<Row(smiles, prediction, confidence, herb_type(prediction))>>

\* predict_single_molecule (lines 672-734)
predict_single_molecule(smiles) ==
  /\ CanDispatch
  /\ predict_single_btn
  /\ IF smiles = ""
     THEN /\ last' = Report("predict_single", "warn_no_smiles", {})
          /\ UNCHANGED <<prediction_history, history_trace, history_display, clock>>
     ELSE IF not_model(model)
     THEN /\ last' = [Report("predict_single", "warn_no_model", {}) EXCEPT !.arg = smiles]
          /\ UNCHANGED <<prediction_history, history_trace, history_display, clock>>
     ELSE IF ~featurizes(smiles)
     THEN /\ last' = [Report("predict_single", "predict_failed", {"featurize"})
                        EXCEPT !.arg = smiles]
          /\ UNCHANGED <<prediction_history, history_trace, history_display, clock>>
     ELSE \E inf \in InferOutcomes :
            IF inf.raised
            THEN /\ last' = [Report("predict_single", "predict_failed",
                                      {"featurize", "infer"}) EXCEPT !.arg = smiles]
                 /\ UNCHANGED <<prediction_history, history_trace, history_display, clock>>
            ELSE LET pred_value == extract_prediction_value(inf.pred)
                 IN /\ Room >= 1
                    /\ prediction_history' =
                         add_to_history(prediction_history, clock, smiles, pred_value,
                                        Confidence)
                    /\ history_trace' =
                         Append(history_trace, Trace("ok", "own", extract_path(inf.pred)))
                    /\ history_display' = update_history_display(prediction_history')
                    /\ clock' = clock + 1
                    /\ last' = [Report("predict_single", "predict_ok",
                                       {"featurize", "infer", "extract"})
                                 EXCEPT !.arg = smiles,
                                        !.displayed = TRUE,
                                        !.results =
                                          display_single_result(smiles, pred_value, Confidence)]
  /\ UNCHANGED <<model, model_path, predict_single_btn, batch_predict_btn, progress_bar,
                 stack, alive>>

\* ---- batch prediction ----
\* texts of test_edit (after strip())
TestFiles == {"", "t.csv"}
\* what pd.read_csv(test_file) gives (lines 775-779): it raises, or a table without or
\* with a smiles column
CsvReads == {"raises", "no_column", "ok"}
\* test_df['smiles'].tolist() (line 781)
SmilesLists == SeqsUpTo(SmilesCells, MaxBatch)

\* the dict appended for a scored item (lines 830-836) and for a failed one (lines 843-849)
scored_prediction(smiles, pred_value) ==
  [smiles |-> smiles, prediction |-> pred_value, confidence |-> Confidence,
   is_antibiotic |-> is_antibiotic(pred_value), herb_type |-> herb_type(pred_value)]
failed_prediction(smiles) ==
  [smiles |-> smiles, prediction |-> ERROR, confidence |-> NoConfidence,
   is_antibiotic |-> FALSE, herb_type |-> "failed"]

\* mutant: a failed item is logged but not recorded
record_prediction_scored_only(predictions, p) ==
  IF p.prediction = ERROR THEN predictions ELSE Append(predictions, p)
\* predictions.append(...) (lines 830, 843)
record_prediction(predictions, p) == Append(predictions, p)

\* One iteration of the loop body for the cell `smiles` (lines 796-850).  err is what
\* featurization raises if it fails, placeholder whether data.MoleculeDatapoint() and
\* MoleculeDataset([dp]) of lines 809-811 return, inf what inference does.  The except
\* TypeError branch (lines 801-811) assigns batch but not test_loader: inference then
\* reads the test_loader of an earlier item, or an unbound local.
item_result(frame, smiles, err, placeholder, inf) ==
  LET failed(trace, steps) ==
        [ok |-> FALSE, prediction |-> failed_prediction(smiles), trace |-> trace,
         test_loader |-> frame.test_loader, steps |-> steps]
      infer(feat, loader, steps) ==
        IF loader = Unbound
        THEN [failed(Trace(feat, "unbound", "none"), steps) EXCEPT !.test_loader = loader]
        ELSE IF model = NoModel
        THEN [failed(Trace(feat, "no_model", "none"), steps \cup {"infer"})
                EXCEPT !.test_loader = loader]
        ELSE IF inf.raised
        THEN [failed(Trace(feat, "raised", "none"), steps \cup {"infer"})
                EXCEPT !.test_loader = loader]
        ELSE [ok |-> TRUE,
              prediction |-> scored_prediction(smiles, extract_prediction_value(inf.pred)),
              trace |-> Trace(feat, IF loader = smiles /\ feat = "ok" THEN "own" ELSE "stale",
                              extract_path(inf.pred)),
              test_loader |-> loader,
              steps |-> steps \cup {"infer", "extract"}]
  IN IF featurizes(smiles)
     THEN infer("ok", smiles, {"featurize"})
     ELSE IF err # "TypeError"
     THEN failed(Trace("error", "none", "none"), {"featurize"})
     ELSE IF ~placeholder
     THEN failed(Trace("error", "none", "none"), {"featurize", "fallback"})
     ELSE infer("placeholder", frame.test_loader, {"featurize", "fallback"})

\* run_prediction up to the loop (lines 758-788)
run_prediction ==
  /\ CanDispatch
  /\ batch_predict_btn
  /\ \E test_file \in TestFiles :
       IF test_file = ""
       THEN /\ last' = Report("run_prediction", "warn_no_file", {})
            /\ UNCHANGED <<progress_bar, stack>>
       ELSE IF not_model(model)
       THEN /\ last' = [Report("run_prediction", "warn_no_model", {}) EXCEPT !.arg = test_file]
            /\ UNCHANGED <<progress_bar, stack>>
       ELSE \E read \in CsvReads :
              IF read = "raises"
              THEN /\ last' = [Report("run_prediction", "batch_failed", {})
                                 EXCEPT !.arg = test_file]
                   /\ progress_bar' = 0
                   /\ stack' = stack
              ELSE IF read = "no_column"
              THEN /\ last' = [Report("run_prediction", "warn_no_column", {})
                                 EXCEPT !.arg = test_file]
                   /\ progress_bar' = 0
                   /\ stack' = stack
              ELSE /\ Len(stack) < MaxDepth
                   /\ \E smiles_list \in SmilesLists :
                        /\ Len(smiles_list) <= Room
                        /\ stack' = Append(stack, BatchFrame(smiles_list))
                   /\ last' = [Report("run_prediction", "started", {}) EXCEPT !.arg = test_file]
                   /\ progress_bar' = 0
  /\ UNCHANGED <<model, model_path, predict_single_btn, batch_predict_btn, prediction_history,
                 history_trace, history_display, clock, alive>>

\* progress = int((i + 1) / total_molecules * 100) (line 793), i counted from 0
progress(i, total_molecules) == ((i + 1) * 100) \div total_molecules

\* the head of an iteration: the progress bar is set before the item is processed
\* (lines 791-794)
run_prediction_progress ==
  /\ Running("batch", "loop")
  /\ Top.i < Len(Top.smiles_list)
  /\ progress_bar' = progress(Top.i, Len(Top.smiles_list))
  /\ stack' = ReplaceTop([Top EXCEPT !.pc = "item"])
  /\ last' = Report("run_prediction_progress", "progress", {})
  /\ UNCHANGED <<model, model_path, predict_single_btn, batch_predict_btn, prediction_history,
                 history_trace, history_display, clock, alive>>

\* the rest of the iteration (lines 796-850): a scored item ends in processEvents()
\* (line 840), a failed one goes on to the next item
run_prediction_item ==
  /\ Running("batch", "item")
  /\ \E err \in FeaturizeErrors, placeholder \in BOOLEAN, inf \in InferOutcomes :
       LET r == item_result(Top, Top.smiles_list[Top.i + 1], err, placeholder, inf)
       IN /\ stack' = ReplaceTop([Top EXCEPT
                         !.pc = IF r.ok THEN "events" ELSE "loop",
                         !.i = Top.i + 1,
                         !.predictions = record_prediction(Top.predictions, r.prediction),
                         !.trace = Append(Top.trace, r.trace),
                         !.test_loader = r.test_loader])
          /\ last' = Report("run_prediction_item", IF r.ok THEN "item_ok" ELSE "item_error",
                            r.steps)
  /\ UNCHANGED <<model, model_path, predict_single_btn, batch_predict_btn, prediction_history,
                 history_trace, history_display, progress_bar, clock, alive>>

\* QApplication.processEvents() of line 840 returns
processEvents_return ==
  /\ Running("batch", "events")
  /\ stack' = ReplaceTop([Top EXCEPT !.pc = "loop"])
  /\ last' = Report("processEvents", "returned", {})
  /\ UNCHANGED <<model, model_path, predict_single_btn, batch_predict_btn, prediction_history,
                 history_trace, history_display, progress_bar, clock, alive>>

RECURSIVE FirstNaN(_, _)
\* the first index from k on whose smiles is no string (0: none)
FirstNaN(predictions, k) ==
  IF k > Len(predictions) THEN 0
  ELSE IF predictions[k].smiles = NaN THEN k ELSE FirstNaN(predictions, k + 1)

\* display_batch_results (lines 907-934) fills result_table row by row;
\* QTableWidgetItem(pred['smiles']) raises TypeError for a float, leaving the rows
\* before it filled
display_raises(predictions) == FirstNaN(predictions, 1) # 0
display_batch_results(predictions) ==
  [k \in 1..(IF display_raises(predictions) THEN FirstNaN(predictions, 1) - 1
             ELSE Len(predictions)) |->
     Row(predictions[k].smiles, predictions[k].prediction, predictions[k].confidence,
         predictions[k].herb_type)]

RECURSIVE history_of_batch(_, _, _, _)
\* mutant: an entry is written for every result, the failed ones included
history_of_batch_every(history, predictions, k, now) ==
  history \o [j \in 1..Len(predictions) |->
                [timestamp |-> now, smiles |-> predictions[j].smiles,
                 prediction |-> predictions[j].prediction,
                 confidence |-> predictions[j].confidence]]
\* for pred in predictions: if pred['prediction'] != 'ERROR': add_to_history(...)
\* (lines 856-858), from index k on, the first timestamp being `now`
history_of_batch(history, predictions, k, now) ==
  IF k > Len(predictions) THEN history
  ELSE IF predictions[k].prediction # ERROR
  THEN history_of_batch(
         add_to_history(history, now, predictions[k].smiles, predictions[k].prediction,
                        predictions[k].confidence),
         predictions, k + 1, now + 1)
  ELSE history_of_batch(history, predictions, k + 1, now)

RECURSIVE trace_of_batch(_, _, _, _)
trace_of_batch(htrace, predictions, trace, k) ==
  IF k > Len(predictions) THEN htrace
  ELSE trace_of_batch(
         IF predictions[k].prediction # ERROR THEN Append(htrace, trace[k]) ELSE htrace,
         predictions, trace, k + 1)

\* mutant: a failed result is counted with the antibiotics
batch_counts_failed_positive(predictions) ==
  [total |-> Len(predictions),
   antibiotics |-> Cardinality({k \in 1..Len(predictions) :
                                  predictions[k].herb_type # "non_antibiotic"}),
   errors |-> Cardinality({k \in 1..Len(predictions) : predictions[k].prediction = ERROR})]
\* the counts of lines 861-863
batch_counts(predictions) ==
  [total |-> Len(predictions),
   antibiotics |-> Cardinality({k \in 1..Len(predictions) : predictions[k].is_antibiotic}),
   errors |-> Cardinality({k \in 1..Len(predictions) : predictions[k].prediction = ERROR})]

\* run_prediction after the loop (lines 852-878).  display_batch_results raising, and
\* antibiotics/total raising ZeroDivisionError for an empty list (line 867), end in the
\* outer except clause.
run_prediction_finish ==
  /\ Running("batch", "loop")
  /\ Top.i = Len(Top.smiles_list)
  /\ LET shown == [Report("run_prediction_finish", "batch_failed", {})
                     EXCEPT !.displayed = TRUE,
                            !.results = display_batch_results(Top.predictions)]
     IN IF display_raises(Top.predictions)
        THEN /\ last' = shown
             /\ UNCHANGED <<prediction_history, history_trace, history_display, clock>>
        ELSE /\ prediction_history' =
                  history_of_batch(prediction_history, Top.predictions, 1, clock)
             /\ history_trace' = trace_of_batch(history_trace, Top.predictions, Top.trace, 1)
             /\ history_display' =
                  IF prediction_history' = prediction_history THEN history_display
                  ELSE update_history_display(prediction_history')
             /\ clock' = clock + Len(Top.predictions) - batch_counts(Top.predictions).errors
             /\ IF Len(Top.predictions) = 0
                THEN last' = shown
                ELSE last' = [shown EXCEPT !.outcome = "batch_ok",
                                           !.counts = batch_counts(Top.predictions)]
  /\ stack' = Pop
  /\ UNCHANGED <<model, model_path, predict_single_btn, batch_predict_btn, progress_bar,
                 alive>>

\* ---- the program ----
Next ==
  \/ \E path \in ModelPaths : load_model(path)
  \/ load_model_resume
  \/ unload_model
  \/ \E smiles \in SmilesTexts : predict_single_molecule(smiles)
  \/ run_prediction
  \/ run_prediction_progress
  \/ run_prediction_item
  \/ processEvents_return
  \/ run_prediction_finish
  \/ clear_history
  \/ export_history

Spec == Init /\ [][Next]_vars

\* ---- the program with a long history ----
RECURSIVE Past(_, _, _)
\* the history n successful predictions of "CCO" with the same score have left, the last
\* of them at time `now`
Past(n, score, now) ==
  IF n = 0 THEN << >>
  ELSE add_to_history(Past(n - 1, score, now - 1), now, "CCO", score, Confidence)

\* the program with m.ckpt loaded, after n successful single predictions
HistoryInit ==
  \E n \in 0..MaxHistory, score \in Scores :
    /\ model = loaded_model("m.ckpt")
    /\ model_path = "m.ckpt"
    /\ prediction_history = Past(n, score, -1)
    /\ history_trace = [k \in 1..n |-> Trace("ok", "own", "value")]
    /\ history_display = update_history_display(prediction_history)
    /\ predict_single_btn = TRUE
    /\ batch_predict_btn = TRUE
    /\ progress_bar = 0
    /\ clock = 0
    /\ stack = << >>
    /\ last = Report("init", "none", {})
    /\ alive = TRUE

\* the handlers that read or write the history
HistoryNext ==
  \/ \E smiles \in SmilesTexts : predict_single_molecule(smiles)
  \/ clear_history
  \/ export_history

HistorySpec == HistoryInit /\ [][HistoryNext]_vars

\* ---- properties ----
\* the batch runs in flight
BatchFrames == {stack[f] : f \in {g \in 1..Len(stack) : stack[g].kind = "batch"}}
\* the step just taken began a prediction (single or batch)
PredictStarts == {"predict_single", "run_prediction"}
\* the warning a prediction handler gives for an empty input field
NoInputWarning(op) == IF op = "predict_single" THEN "warn_no_smiles" ELSE "warn_no_file"

\* C1 as stated: whenever the model handle is empty, predict_single and predict_batch
\* end with the 'model not loaded' warning, run no featurization and no inference step,
\* and leave history and results unchanged.
C1_Original ==
  [][(model = NoModel /\ last'.op \in PredictStarts) =>
       /\ last'.outcome = "warn_no_model"
       /\ last'.steps = {}
       /\ ~last'.displayed
       /\ UNCHANGED <<prediction_history, history_trace, stack>>]_vars

\* C1 (amended): whenever the model handle is empty, predict_single and predict_batch
\* given a non-empty input end with the 'model not loaded' warning, and given an empty
\* input end with the missing-input warning; in both cases they run no featurization
\* and no inference step, touch neither the history nor the result table and start no
\* batch.
C1_NotLoaded ==
  [][(model = NoModel /\ last'.op \in PredictStarts) =>
       /\ last'.outcome =
            IF last'.arg = "" THEN NoInputWarning(last'.op) ELSE "warn_no_model"
       /\ last'.steps = {}
       /\ ~last'.displayed
       /\ UNCHANGED <<prediction_history, history_trace, stack, model, model_path>>]_vars

C1_Witness ==
  /\ model = NoModel
  /\ last.op = "predict_single"
  /\ last.arg = "CCO"
  /\ last.outcome = "warn_no_model"

\* C2: in every batch run the results recorded so far are exactly one per processed
\* item, in input order, result k carrying the molecule string of item k, whatever
\* failed; so a finished loop over N items has exactly N results.
C2_OneResultPerItem ==
  \A fr \in BatchFrames :
    /\ fr.i <= Len(fr.smiles_list)
    /\ Len(fr.predictions) = fr.i
    /\ \A k \in 1..Len(fr.predictions) : fr.predictions[k].smiles = fr.smiles_list[k]
    /\ (fr.pc = "loop" /\ fr.i = Len(fr.smiles_list)
          => Len(fr.predictions) = Len(fr.smiles_list))

C2_Witness ==
  \E fr \in BatchFrames :
    /\ Len(fr.smiles_list) = 2
    /\ fr.i = 2
    /\ fr.predictions[1].prediction = ERROR
    /\ fr.predictions[2].prediction # ERROR

\* C3: in a batch, an item whose molecule string cannot be featurized is error-tagged
\* at its own index; a finished batch with exactly one such item, whose other items
\* were inferred without failure, has N-1 scored results and one error-tagged result.
C3_Claim ==
  \A fr \in BatchFrames :
    LET done == 1..Len(fr.predictions)
        malformed == {k \in done : ~featurizes(fr.smiles_list[k])}
        errors == {k \in done : fr.predictions[k].prediction = ERROR}
    IN /\ malformed \subseteq errors
       /\ (/\ fr.i = Len(fr.smiles_list)
           /\ Cardinality(malformed) = 1
           /\ \A k \in done \ malformed : fr.trace[k].infer = "own")
            => errors = malformed

\* C4: when featurization fails, no placeholder datapoint is built from the unparsed
\* string and no inference is run for the item.
C4_Claim ==
  \A fr \in BatchFrames :
    \A k \in 1..Len(fr.trace) :
      fr.trace[k].feat # "ok" => fr.trace[k].feat = "error" /\ fr.trace[k].infer = "none"

\* C5: no result carries a score that the extraction made up: a raw output whose
\* extraction fails gives a failure, not a value.
C5_Claim ==
  /\ \A fr \in BatchFrames :
       \A k \in 1..Len(fr.trace) :
         fr.predictions[k].prediction # ERROR => fr.trace[k].extract # "default"
  /\ \A k \in 1..Len(history_trace) : history_trace[k].extract # "default"

\* C6: every history entry stems from an item that completed featurization, inference
\* on its own datapoint, and extraction of a value the model gave.
C6_Claim ==
  \A k \in 1..Len(history_trace) :
    /\ history_trace[k].feat = "ok"
    /\ history_trace[k].infer = "own"
    /\ history_trace[k].extract = "value"

\* C7: after a successful load_model(p) the active handle is the one loaded from p and
\* the recorded path is p, whatever was loaded before (and whatever the handlers
\* dispatched during the load did).
C7_LoadReplaces ==
  (last.op = "load_model" /\ last.outcome = "load_ok") =>
    /\ model # NoModel
    /\ model.path = last.arg
    /\ model.kind = (IF last.arg = "m.ckpt" THEN "MPNN" ELSE "torch")
    /\ model_path = last.arg

C7_Witness ==
  /\ last.op = "load_model"
  /\ last.outcome = "load_ok"
  /\ last.replaced # NoModel
  /\ last.replaced.path # last.arg
  /\ model.path = last.arg

\* C8: unload_model, from any state, ends with no handle and no path and leaves the
\* history as it was; a second unload_model right after the first changes nothing.
C8_Unload ==
  [][last'.op = "unload_model" =>
       /\ last'.outcome = "unloaded"
       /\ model' = NoModel
       /\ model_path' = "None"
       /\ UNCHANGED <<prediction_history, history_trace, stack>>
       /\ (last.op = "unload_model" => UNCHANGED progvars)]_vars

C8_Witness ==
  /\ last.op = "unload_model"
  /\ last.replaced # NoModel
  /\ model = NoModel
  /\ model_path = "None"
  /\ prediction_history # << >>
  /\ stack # << >>

\* C9: clear_history, from any state, leaves the history empty (so the view of its
\* most recent entries is empty too) and the model handle and path as they were.
C9_Clear ==
  [][last'.op = "clear_history" =>
       /\ prediction_history' = << >>
       /\ view(prediction_history') = << >>
       /\ UNCHANGED <<model, model_path>>]_vars

C9_Witness ==
  /\ last.op = "clear_history"
  /\ clock >= 2
  /\ prediction_history = << >>
  /\ model # NoModel

\* C10 as stated: export_history, for every history including the empty one, writes a
\* file with one row per entry (unless the user cancels or the write fails).
C10_Original ==
  (last.op = "export_history" /\ last.outcome \notin {"cancelled", "unhandled_exception"}) =>
    /\ last.file.written
    /\ Len(last.file.rows) = Len(prediction_history)

\* C10 (amended): export_history never changes the history.  For the empty history it
\* writes no file and warns.  For a non-empty history every file it writes has the
\* columns timestamp, smiles, prediction, confidence and exactly one row per entry, in
\* insertion order, row k holding the four fields of entry k.
C10_Export ==
  [][last'.op = "export_history" =>
       /\ UNCHANGED <<prediction_history, history_trace>>
       /\ (prediction_history = << >> =>
             last'.outcome = "warn_no_history" /\ ~last'.file.written)
       /\ (prediction_history # << >> =>
             last'.outcome \in {"export_ok", "cancelled", "unhandled_exception"})
       /\ (last'.file.written <=> last'.outcome = "export_ok")
       /\ (last'.outcome = "export_ok" =>
             /\ last'.file.header = <<"timestamp", "smiles", "prediction", "confidence">>
             /\ Len(last'.file.rows) = Len(prediction_history)
             /\ \A k \in 1..Len(prediction_history) :
                  last'.file.rows[k] =
                    <<prediction_history[k].timestamp, prediction_history[k].smiles,
                      prediction_history[k].prediction, prediction_history[k].confidence>>)]_vars

C10_Witness ==
  /\ last.op = "export_history"
  /\ last.outcome = "export_ok"
  /\ Len(last.file.rows) = 2
  /\ Len(prediction_history) = 2

\* C11: in every state the history table shows the last min(20, n) entries of the n-entry
\* history in insertion order; an export writes a row for each of the n entries; and no
\* step but clear_history removes an entry from the history, however long it is.
C11_View ==
  /\ [](LET n == Len(prediction_history)
            m == IF n < 20 THEN n ELSE 20
        IN /\ Len(history_display) = m
           /\ \A k \in 1..m :
                LET e == prediction_history[n - m + k]
                IN history_display[k] = <<e.timestamp, <<e.smiles, "...">>, e.prediction,
                                          e.confidence>>
           /\ (last.outcome = "export_ok" =>
                 /\ Len(last.file.rows) = n
                 /\ \A k \in 1..n :
                      last.file.rows[k][1] = prediction_history[k].timestamp))
  /\ [][last'.op # "clear_history" =>
         /\ Len(prediction_history') >= Len(prediction_history)
         /\ SubSeq(prediction_history', 1, Len(prediction_history)) = prediction_history]_vars

C11_Witness ==
  /\ last.op = "export_history"
  /\ last.outcome = "export_ok"
  /\ clock >= 1
  /\ Len(prediction_history) > 20
  /\ Len(history_display) = 20
  /\ history_display[1][1] = prediction_history[Len(prediction_history) - 19].timestamp
  /\ Len(last.file.rows) = Len(prediction_history)

\* C12: during a batch over N items the reported progress never decreases, and the
\* value reported is at most (items whose result is recorded)/N: in particular 100 is
\* not reported while the last item is unprocessed.
C12_Claim ==
  [][last'.op = "run_prediction_progress" =>
       LET fr == stack'[Len(stack')]
       IN /\ progress_bar' >= progress_bar
          /\ progress_bar' * Len(fr.smiles_list) <= 100 * Len(fr.predictions)]_vars

\* C13: when a batch completes, the counts it reports are: total, the number of input
\* items; errors, the number of error-tagged results; antibiotics, the number of scored
\* results whose score is above 0.5; no error-tagged result is counted as an
\* antibiotic, so antibiotics + errors <= total.
C13_Counts ==
  [][(last'.op = "run_prediction_finish" /\ last'.outcome = "batch_ok") =>
       LET fr == Top
           n == Len(fr.smiles_list)
           failed == {k \in 1..n : fr.predictions[k].prediction = ERROR}
           positive == {k \in 1..n : fr.predictions[k].prediction > 50}
       IN /\ last'.counts.total = n
          /\ last'.counts.errors = Cardinality(failed)
          /\ last'.counts.antibiotics = Cardinality(positive)
          /\ positive \cap failed = {}
          /\ last'.counts.antibiotics + last'.counts.errors <= last'.counts.total]_vars

C13_Witness ==
  /\ last.op = "run_prediction_finish"
  /\ last.outcome = "batch_ok"
  /\ last.counts = [total |-> 2, antibiotics |-> 1, errors |-> 1]

\* C14: every handler ends in a success or in an error it caught and reported; no
\* exception leaves a handler, and the process is never ended by one.
C14_Claim ==
  /\ alive
  /\ last.outcome # "unhandled_exception"

\* C15: in the single path and in the batch path alike, a scored result is labelled
\* antibiotic exactly when its score is above 0.5 (a score of exactly 0.5 is labelled
\* non-antibiotic), and an error-tagged result is labelled neither: its label is false.
C15_Label ==
  /\ \A fr \in BatchFrames :
       \A k \in 1..Len(fr.predictions) :
         LET p == fr.predictions[k]
         IN IF p.prediction = ERROR
            THEN p.is_antibiotic = FALSE /\ p.herb_type = "failed"
            ELSE /\ p.is_antibiotic = (p.prediction > 50)
                 /\ p.herb_type = (IF p.prediction > 50 THEN "antibiotic" ELSE "non_antibiotic")
  /\ \A k \in 1..Len(last.results) :
       LET r == last.results[k]
       IN IF r.prediction = ERROR
          THEN r.nature = "failed"
          ELSE r.nature = (IF r.prediction > 50 THEN "antibiotic" ELSE "non_antibiotic")

C15_Witness ==
  /\ last.op = "predict_single"
  /\ last.outcome = "predict_ok"
  /\ last.results[1].prediction = 50
  /\ last.results[1].nature = "non_antibiotic"
  /\ \E fr \in BatchFrames :
       /\ Len(fr.predictions) >= 1
       /\ fr.predictions[1].prediction = 80
       /\ fr.predictions[1].is_antibiotic

\* C16: the inference step is never executed while the model handle is empty, also
\* when unload_model was dispatched between two items of a running batch.
C16_Claim ==
  /\ ("infer" \in last.steps => model # NoModel)
  /\ \A fr \in BatchFrames :
       \A k \in 1..Len(fr.trace) : fr.trace[k].infer # "no_model"

\* C17: every step leaves the history as it was, or appends entries at its end (the
\* entries it had keep their position and their fields), or, being clear_history,
\* empties it; export_history never changes it.
C17_AppendOnly ==
  [][/\ \/ prediction_history' = prediction_history
        \/ /\ Len(prediction_history') > Len(prediction_history)
           /\ SubSeq(prediction_history', 1, Len(prediction_history)) = prediction_history
        \/ /\ last'.op = "clear_history"
           /\ prediction_history' = << >>
     /\ (last'.op = "export_history" => prediction_history' = prediction_history)]_vars

C17_Witness ==
  /\ last.op = "run_prediction_finish"
  /\ last.outcome = "batch_ok"
  /\ Len(last.results) = 1
  /\ Len(prediction_history) = 2
  /\ prediction_history[1].timestamp = 0
  /\ prediction_history[2].timestamp = 1

\* C18: while a batch run is in flight (begun and not yet returned), no predict_batch,
\* predict_single, load_model, unload_model or clear_history begins.
C18_Claim ==
  [][(\E f \in 1..Len(stack) : stack[f].kind = "batch") =>
       last'.op \notin {"run_prediction", "predict_single", "load_model", "unload_model",
                        "clear_history"}]_vars

\* C19: no step of a load_model call that fails (empty path, or the loader raised)
\* changes the active handle or the recorded path; and in every state the handle is
\* empty exactly when the recorded path is.
C19_FailedLoad ==
  /\ [](model = NoModel <=> model_path = "None")
  /\ [][(last'.op = "load_model" /\ last'.outcome # "load_ok") =>
          (model' = model /\ model_path' = model_path)]_vars

C19_Witness ==
  /\ last.op = "load_model"
  /\ last.outcome = "load_failed"
  /\ model # NoModel
  /\ model_path # last.arg

\* C20: a batch over an empty list ends on the success path with no results and the
\* counts total = 0, antibiotics = 0, errors = 0.
C20_Claim ==
  [][(last'.op = "run_prediction_finish" /\ Top.smiles_list = << >>) =>
       /\ last'.outcome = "batch_ok"
       /\ last'.results = << >>
       /\ last'.counts = [total |-> 0, antibiotics |-> 0, errors |-> 0]]_vars

\* C21: a batch writes the history only after all its items are processed: its steps
\* before the end of the loop leave the history as it is; the step after the loop, if
\* the batch completes, appends one entry per scored result, in input order, behind the
\* entries that were there; and if the batch ends in the outer failure path that step
\* leaves the history as it is.
C21_HistoryAfterLoop ==
  [][/\ last'.op \in {"run_prediction", "run_prediction_progress", "run_prediction_item",
                      "processEvents"}
          => prediction_history' = prediction_history
     /\ last'.op = "run_prediction_finish" =>
          LET fr == Top
              n == Len(prediction_history)
              scored == {k \in 1..Len(fr.predictions) : fr.predictions[k].prediction # ERROR}
              rank(k) == Cardinality({j \in scored : j <= k})
          IN /\ Len(fr.predictions) = Len(fr.smiles_list)
             /\ last'.outcome \in {"batch_ok", "batch_failed"}
             /\ last'.outcome = "batch_failed" => prediction_history' = prediction_history
             /\ last'.outcome = "batch_ok" =>
                  /\ Len(prediction_history') = n + Cardinality(scored)
                  /\ SubSeq(prediction_history', 1, n) = prediction_history
                  /\ \A k \in scored :
                       LET e == prediction_history'[n + rank(k)]
                       IN /\ e.smiles = fr.smiles_list[k]
                          /\ e.prediction = fr.predictions[k].prediction
                          /\ e.confidence = fr.predictions[k].confidence
                  /\ \A a, b \in (n + 1)..Len(prediction_history') :
                       a < b => prediction_history'[a].timestamp
                                  <= prediction_history'[b].timestamp]_vars

C21_Witness ==
  /\ last.op = "run_prediction_finish"
  /\ last.outcome = "batch_ok"
  /\ Len(last.results) = 2
  /\ last.results[1].prediction = ERROR
  /\ last.results[2].prediction # ERROR
  /\ Len(prediction_history) = 1
  /\ prediction_history[1].smiles = last.results[2].smiles
  /\ prediction_history[1].prediction = last.results[2].prediction

====
